---- MODULE Spec2Model ----
(***************************************************************************)
(* Generation-job orchestration and credit ledger of the backend:          *)
(*   backend/app/worker.py  generate_media_from_text_task,                 *)
(*                          generate_media_from_media_task                 *)
(*   backend/app/utils.py   generate_media_from_text / _from_media         *)
(*   backend/app/ComfyUIClient.py  post_request, poll_for_completion       *)
(*   backend/app/crud.py    has_sufficient_credits, deduct_user_credits    *)
(*                                                                         *)
(* The database is modelled as committed tables (balance, jobs, media,     *)
(* txns) plus, per worker task, the rows its SQLAlchemy session has        *)
(* flushed inside its open transaction.  Reads see committed data only     *)
(* (READ COMMITTED, the PostgreSQL default; the code sets no isolation     *)
(* level), and the ORM writes the balance it computed in Python as an      *)
(* absolute value.                                                         *)
(***************************************************************************)
EXTENDS Integers, FiniteSets, Sequences, TLC

\* ---------------------------------------------------------------- bounds
NumRuns == 2            \* worker tasks that may run concurrently
NumUsers == 2           \* rows of the user table
InitBalance == 5        \* credit_balance of every user at the start
SmallCost == 2          \* the smaller of the two quoted costs
NumOutputs == 3         \* num_outputs of every request (the worker never reads it)
MaxArtifacts == 3       \* most artifacts a remote job returns

Runs == 1..NumRuns
Users == 1..NumUsers
UserIds == 0..NumUsers  \* user_id arguments; 0 names no row
Costs == {SmallCost, InitBalance}
NoId == 0               \* None in an id column

\* ------------------------------------------------- remote status vocabulary
STATUS_IN_QUEUE == "IN_QUEUE"
STATUS_IN_PROGRESS == "IN_PROGRESS"
STATUS_COMPLETED == "COMPLETED"
STATUS_FAILED == "FAILED"
STATUS_CANCELLED == "CANCELLED"
STATUS_TIMED_OUT == "TIMED_OUT"
NoStatus == "(absent)"  \* the JSON body has no 'status' key

FinalStatuses ==
    {STATUS_COMPLETED, STATUS_FAILED, STATUS_CANCELLED, STATUS_TIMED_OUT, NoStatus}

\* What the body of a 200 answer looks like: its status, whether it has an
\* 'output' key, whether output has a 'message' key, and how many artifacts
\* the message list holds.
Bodies ==
    [status : FinalStatuses, hasOutput : {FALSE}, hasMessage : {FALSE}, n : {0}]
    \cup [status : {STATUS_COMPLETED, STATUS_FAILED}, hasOutput : {TRUE},
          hasMessage : {FALSE}, n : {0}]
    \cup [status : {STATUS_COMPLETED, STATUS_FAILED}, hasOutput : {TRUE},
          hasMessage : {TRUE}, n : 0..MaxArtifacts]

NoBody == [status |-> NoStatus, hasOutput |-> FALSE, hasMessage |-> FALSE, n |-> 0]

\* What the remote endpoint does with one submission.  post is the answer to
\* the POST ("error": the request raises; "non200"; "ok": 200 with body),
\* poll is the answer that ends the status loop when the POST body had no
\* 'output' (answers IN_QUEUE / IN_PROGRESS before it only make the loop
\* sleep and ask again).
RemoteBehaviours ==
    [post : {"error", "non200"}, poll : {"none"}, body : {NoBody}]
    \cup [post : {"ok"}, poll : {"none"}, body : {b \in Bodies : b.hasOutput}]
    \cup [post : {"ok"}, poll : {"error", "non200"}, body : {NoBody}]
    \cup [post : {"ok"}, poll : {"ok"}, body : Bodies]

\* Responses handed to the caller of the client.
Raised == [kind |-> "raise", body |-> NoBody]
None == [kind |-> "none", body |-> NoBody]
Json(b) == [kind |-> "json", body |-> b]

\* ComfyUIClient.poll_for_completion: the answer that ends the loop.
poll_for_completion(o) ==
    IF o.poll = "error" THEN Raised
    ELSE IF o.poll = "ok"
         THEN IF o.body.status = STATUS_COMPLETED THEN Json(o.body)
              ELSE None            \* FAILED, TIMED_OUT, anything else: falls
                                   \* out of the loop, returns None
         ELSE None                 \* non-200: request_in_queue = False

\* ComfyUIClient.post_request (queue_prompt_async calls it with run_sync=False)
post_request(o) ==
    IF o.post = "error" THEN Raised
    ELSE IF o.post = "ok"
         THEN IF o.body.hasOutput /\ o.poll = "none" THEN Json(o.body)
              ELSE poll_for_completion(o)
         ELSE None                 \* non-200 is logged, nothing returned

\* Mutant: the status of the response is not looked at.
generate_media_ignores_status(resp) ==
    IF resp.kind = "json" /\ resp.body.hasOutput /\ resp.body.hasMessage
    THEN [raised |-> FALSE, n |-> resp.body.n]
    ELSE [raised |-> TRUE, n |-> 0]

\* Mutant: the artifact list is padded to the requested count.
generate_media_padded(resp) ==
    IF resp.kind = "json" /\ resp.body.status = STATUS_COMPLETED
       /\ resp.body.hasOutput /\ resp.body.hasMessage
    THEN [raised |-> FALSE, n |-> NumOutputs]
    ELSE [raised |-> TRUE, n |-> 0]

\* utils.generate_media_from_text / generate_media_from_media after the
\* client call: the artifacts, or an exception.  Subscripting a None
\* response raises as well and is re-raised by the except clause.
generate_media(resp) ==
    IF resp.kind = "json" /\ resp.body.status = STATUS_COMPLETED
       /\ resp.body.hasOutput /\ resp.body.hasMessage
    THEN [raised |-> FALSE, n |-> resp.body.n]
    ELSE [raised |-> TRUE, n |-> 0]

\* ------------------------------------------------------------ crud.py
\* Mutant: a strict comparison.
has_sufficient_credits_strict(bal, uid, required_credits) ==
    IF uid \notin DOMAIN bal THEN FALSE
    ELSE bal[uid] > required_credits

\* crud.has_sufficient_credits: bal is the table column, uid the argument.
has_sufficient_credits(bal, uid, required_credits) ==
    IF uid \notin DOMAIN bal THEN FALSE
    ELSE bal[uid] >= required_credits

\* Mutant: the balance check is missing.
deduct_user_credits_unchecked(bal, uid, amount) ==
    IF uid \notin DOMAIN bal THEN [ret |-> FALSE, write |-> FALSE, value |-> 0]
    ELSE [ret |-> TRUE, write |-> TRUE, value |-> bal[uid] - amount]

\* Mutant: the check rejects a balance equal to the amount.
deduct_user_credits_le(bal, uid, amount) ==
    IF uid \notin DOMAIN bal THEN [ret |-> FALSE, write |-> FALSE, value |-> 0]
    ELSE IF bal[uid] <= amount THEN [ret |-> FALSE, write |-> FALSE, value |-> bal[uid]]
    ELSE [ret |-> TRUE, write |-> TRUE, value |-> bal[uid] - amount]

\* crud.deduct_user_credits up to the commit: the return value and the
\* balance the session is about to write.
deduct_user_credits(bal, uid, amount) ==
    IF uid \notin DOMAIN bal THEN [ret |-> FALSE, write |-> FALSE, value |-> 0]
    ELSE IF bal[uid] < amount THEN [ret |-> FALSE, write |-> FALSE, value |-> bal[uid]]
    ELSE [ret |-> TRUE, write |-> TRUE, value |-> bal[uid] - amount]


\* ------------------------------------------- ComfyUIClient, step by step
MaxPolls == 4           \* status requests explored per submission
MaxSeed == 2            \* seeds drawn by random.randint
MaxJobIds == 2          \* remote job ids the endpoint hands out
POLL_SLEEP_SECONDS == 5 \* time.sleep(5) in the status loop

Seeds == 1..MaxSeed
JobIds == 1..MaxJobIds

\* The positions load_workflow maps: seed, positive prompt, negative prompt,
\* size/batch and load-image node.
Nodes == {"seed", "positive", "negative", "batch", "image"}

InQueueBodies ==
    [status : {STATUS_IN_QUEUE, STATUS_IN_PROGRESS}, hasOutput : {FALSE},
     hasMessage : {FALSE}, n : {0}]

\* One HTTP answer of the endpoint: the request raised ("error"), a status
\* code other than 200, or 200 with a JSON body (and, for the POST, an id).
HttpAnswers(ids) ==
    [http : {"error", "non200"}, body : {NoBody}, id : {NoId}]
    \cup [http : {"ok"}, body : Bodies \cup InQueueBodies, id : ids]

PostAnswers == HttpAnswers(JobIds \cup {NoId})
PollAnswers == HttpAnswers({NoId})

\* update_seed_node, update_positive_prompt, update_negative_prompt,
\* update_output_batch: self.workflow.get(str(node_number)); a missing node
\* raises ValueError("... not found in the workflow JSON."), a present one
\* gets the value.
update_seed_node_silent(wf, seed_value) ==      \* mutant: a missing node is skipped
    IF "seed" \notin DOMAIN wf THEN [raised |-> FALSE, workflow |-> wf]
    ELSE [raised |-> FALSE, workflow |-> [wf EXCEPT !["seed"] = seed_value]]

update_seed_node(wf, seed_value) ==
    IF "seed" \notin DOMAIN wf THEN [raised |-> TRUE, workflow |-> wf]
    ELSE [raised |-> FALSE, workflow |-> [wf EXCEPT !["seed"] = seed_value]]

update_positive_prompt(wf, prompt_text) ==
    IF "positive" \notin DOMAIN wf THEN [raised |-> TRUE, workflow |-> wf]
    ELSE [raised |-> FALSE, workflow |-> [wf EXCEPT !["positive"] = prompt_text]]

update_negative_prompt(wf, prompt_text) ==
    IF "negative" \notin DOMAIN wf THEN [raised |-> TRUE, workflow |-> wf]
    ELSE [raised |-> FALSE, workflow |-> [wf EXCEPT !["negative"] = prompt_text]]

update_output_batch(wf, batch_size) ==
    IF "batch" \notin DOMAIN wf THEN [raised |-> TRUE, workflow |-> wf]
    ELSE [raised |-> FALSE, workflow |-> [wf EXCEPT !["batch"] = batch_size]]

\* upload_image: the encoded image is appended to payload["input"]["images"]
\* first, then the load-image node is looked up.
upload_image(wf, images, name) ==
    IF "image" \notin DOMAIN wf
    THEN [raised |-> TRUE, workflow |-> wf, images |-> images + 1]
    ELSE [raised |-> FALSE, workflow |-> [wf EXCEPT !["image"] = name],
          images |-> images + 1]

\* update_input_image, called by generate_media_from_media and not defined in
\* ComfyUIClient.py: the attach-input-image mutator as specified (locate the
\* mapped position, fail if it is absent, else attach).
update_input_image(wf, images, name) ==
    IF "image" \notin DOMAIN wf
    THEN [raised |-> TRUE, workflow |-> wf, images |-> images]
    ELSE [raised |-> FALSE, workflow |-> [wf EXCEPT !["image"] = name],
          images |-> images + 1]

\* Mutant: a handle is returned to the caller as it is, without polling.
post_request_step_never_polls(ans) ==
    IF ans.http = "error" THEN [next |-> "returned", result |-> Raised]
    ELSE IF ans.http = "ok" THEN [next |-> "returned", result |-> Json(ans.body)]
    ELSE [next |-> "returned", result |-> None]

\* Mutant: a body with 'output' is polled for like a handle.
post_request_step_always_polls(ans) ==
    IF ans.http = "error" THEN [next |-> "returned", result |-> Raised]
    ELSE IF ans.http = "ok" THEN [next |-> "poll", result |-> None]
    ELSE [next |-> "returned", result |-> None]

\* Mutant: a request that raised is sent again.
post_request_step_resubmits(ans) ==
    IF ans.http = "error" THEN [next |-> "submit", result |-> None]
    ELSE IF ans.http = "ok"
         THEN IF ans.body.hasOutput THEN [next |-> "returned", result |-> Json(ans.body)]
              ELSE IF ans.id = NoId
                   THEN [next |-> "returned", result |-> Raised]
                   ELSE [next |-> "poll", result |-> None]
         ELSE [next |-> "returned", result |-> None]

\* post_request after requests.post: what the client does with the answer,
\* the same for run and runsync.
post_request_step(ans) ==
    IF ans.http = "error" THEN [next |-> "returned", result |-> Raised]
    ELSE IF ans.http = "ok"
         THEN IF ans.body.hasOutput THEN [next |-> "returned", result |-> Json(ans.body)]
              ELSE IF ans.id = NoId            \* resp_json['id']: KeyError
                   THEN [next |-> "returned", result |-> Raised]
                   ELSE [next |-> "poll", result |-> None]
         ELSE [next |-> "returned", result |-> None]   \* logged, nothing returned

\* Mutant: the loop sleeps after every answer, the final one included.
poll_iteration_sleeps_always(ans) ==
    IF ans.http = "error" THEN [next |-> "returned", sleep |-> 0, result |-> Raised]
    ELSE IF ans.http = "ok"
         THEN IF ans.body.status \in {STATUS_IN_QUEUE, STATUS_IN_PROGRESS}
              THEN [next |-> "poll", sleep |-> POLL_SLEEP_SECONDS, result |-> None]
              ELSE IF ans.body.status = STATUS_COMPLETED
                   THEN [next |-> "returned", sleep |-> POLL_SLEEP_SECONDS,
                         result |-> Json(ans.body)]
                   ELSE [next |-> "returned", sleep |-> POLL_SLEEP_SECONDS,
                         result |-> None]
         ELSE [next |-> "returned", sleep |-> 0, result |-> None]

\* Mutant: TIMED_OUT is treated like IN_PROGRESS.
poll_iteration_waits_on_timeout(ans) ==
    IF ans.http = "error" THEN [next |-> "returned", sleep |-> 0, result |-> Raised]
    ELSE IF ans.http = "ok"
         THEN IF ans.body.status \in
                     {STATUS_IN_QUEUE, STATUS_IN_PROGRESS, STATUS_TIMED_OUT}
              THEN [next |-> "poll", sleep |-> POLL_SLEEP_SECONDS, result |-> None]
              ELSE IF ans.body.status = STATUS_COMPLETED
                   THEN [next |-> "returned", sleep |-> 0, result |-> Json(ans.body)]
                   ELSE [next |-> "returned", sleep |-> 0, result |-> None]
         ELSE [next |-> "returned", sleep |-> 0, result |-> None]

\* Mutant: a request that raised is tried again after a sleep.
poll_iteration_retries_errors(ans) ==
    IF ans.http = "error"
    THEN [next |-> "poll", sleep |-> POLL_SLEEP_SECONDS, result |-> None]
    ELSE IF ans.http = "ok"
         THEN IF ans.body.status \in {STATUS_IN_QUEUE, STATUS_IN_PROGRESS}
              THEN [next |-> "poll", sleep |-> POLL_SLEEP_SECONDS, result |-> None]
              ELSE IF ans.body.status = STATUS_COMPLETED
                   THEN [next |-> "returned", sleep |-> 0, result |-> Json(ans.body)]
                   ELSE [next |-> "returned", sleep |-> 0, result |-> None]
         ELSE [next |-> "returned", sleep |-> 0, result |-> None]

\* Mutant: a status the loop does not know is waited on like IN_PROGRESS.
poll_iteration_waits_on_unknown(ans) ==
    IF ans.http = "error" THEN [next |-> "returned", sleep |-> 0, result |-> Raised]
    ELSE IF ans.http = "ok"
         THEN IF ans.body.status \notin
                     {STATUS_COMPLETED, STATUS_FAILED, STATUS_TIMED_OUT}
              THEN [next |-> "poll", sleep |-> POLL_SLEEP_SECONDS, result |-> None]
              ELSE IF ans.body.status = STATUS_COMPLETED
                   THEN [next |-> "returned", sleep |-> 0, result |-> Json(ans.body)]
                   ELSE [next |-> "returned", sleep |-> 0, result |-> None]
         ELSE [next |-> "returned", sleep |-> 0, result |-> None]

\* One turn of the while loop of poll_for_completion after requests.get: a
\* request that raised is re-raised; IN_QUEUE / IN_PROGRESS sleep and go on;
\* COMPLETED returns the body; FAILED (also the default of a missing status),
\* TIMED_OUT, any other status and any non-200 answer clear request_in_queue,
\* and the function falls off its end.
poll_iteration(ans) ==
    IF ans.http = "error" THEN [next |-> "returned", sleep |-> 0, result |-> Raised]
    ELSE IF ans.http = "ok"
         THEN IF ans.body.status \in {STATUS_IN_QUEUE, STATUS_IN_PROGRESS}
              THEN [next |-> "poll", sleep |-> POLL_SLEEP_SECONDS, result |-> None]
              ELSE IF ans.body.status = STATUS_COMPLETED
                   THEN [next |-> "returned", sleep |-> 0, result |-> Json(ans.body)]
                   ELSE [next |-> "returned", sleep |-> 0, result |-> None]
         ELSE [next |-> "returned", sleep |-> 0, result |-> None]

\* Events on the wire.
PostEvent(ans) ==
    [op |-> "POST", id |-> ans.id, http |-> ans.http, body |-> ans.body, secs |-> 0]
GetEvent(request_id, ans) ==
    [op |-> "GET", id |-> request_id, http |-> ans.http, body |-> ans.body, secs |-> 0]
SleepEvent(secs) ==
    [op |-> "SLEEP", id |-> NoId, http |-> "", body |-> NoBody, secs |-> secs]

\* self.payload as posted: the workflow and the number of attached images.
NoPayload == [workflow |-> <<>>, images |-> 0]

\* ComfyUIClient.__init__: no workflow, no payload, nothing called yet.
NoClient ==
    [pc |-> "idle", mode |-> "", has_negative |-> FALSE, run_sync |-> FALSE,
     seed |-> 0, workflow |-> <<>>, images |-> 0, called |-> {},
     request_id |-> NoId, result |-> None, error |-> "", payload |-> NoPayload]

\* ------------------------------------------------------------------ state
VARIABLES
    balance,        \* user.credit_balance, committed: [Users -> Int]
    jobs,           \* committed generationjob rows
    media,          \* committed media rows
    txns,           \* committed credittransaction rows
    nextJobId,      \* generationjob.id sequence
    nextMediaId,    \* media.id sequence
    nextTxnId,      \* credittransaction.id sequence
    blobs,          \* objects put into the bucket, per task
    pc,             \* where each worker task stands
    request_data,   \* the task's arguments (with user_id)
    response,       \* what the client returned to generate_media_from_*
    generated_media,\* number of artifacts the task still has to store
    job,            \* id of the task's GenerationJob (NoId before the flush)
    input_media,    \* id of the task's input Media row (image-to-image)
    new_media_entries, \* Media objects added to the session, not yet flushed
    session,        \* rows flushed in the task's open transaction
    user,           \* the User object loaded by deduct_user_credits
    deducted,       \* return value of deduct_user_credits ("" = not called)
    debited,        \* history: by how much the task's commits lowered balance
    raisedAt,       \* history: the step at which the task raised ("" = none)
    ledgerCall,     \* history: the last direct call of a ledger primitive
    client,         \* the ComfyUIClient object of each run and its caller's position
    wire,           \* history: what each client did on the network, in order
    remote,         \* the status of each run's job at the remote endpoint
    queue,          \* tasks handed to the broker by the API layer
    apiResponse     \* history: the last answer of a generate route

dbVars == <<balance, jobs, media, txns, nextJobId, nextMediaId, nextTxnId>>
taskVars == <<blobs, pc, request_data, response, generated_media, job, input_media,
              new_media_entries, session, user, deducted, debited, raisedAt>>
clientVars == <<client, wire, remote>>
apiVars == <<queue, apiResponse>>
vars == <<dbVars, taskVars, ledgerCall, clientVars, apiVars>>

NoRequest == [kind |-> "", user_id |-> 0, credit_cost |-> 0, num_outputs |-> 0]
Requests ==
    [kind : {"text_to_image", "image_to_image"}, user_id : Users,
     credit_cost : Costs, num_outputs : {NumOutputs}]

NoApiResponse ==
    [kind |-> "", user_id |-> NoId, num_outputs |-> 0, status_code |-> 0,
     detail |-> "", task_id |-> NoId]
EmptySession == [jobs |-> {}, media |-> {}, txns |-> {}]
NoUser == [loaded |-> FALSE, dirty |-> FALSE, credit_balance |-> 0]
NoCall == [op |-> "", user_id |-> 0, amount |-> 0, before |-> 0, ret |-> FALSE]

\* Everything but the balances and the media table.
InitRest ==
    /\ jobs = {} /\ txns = {}
    /\ nextJobId = 1 /\ nextMediaId = 1 /\ nextTxnId = 1
    /\ blobs = [r \in Runs |-> 0]
    /\ pc = [r \in Runs |-> "queued"]
    /\ request_data = [r \in Runs |-> NoRequest]
    /\ response = [r \in Runs |-> None]
    /\ generated_media = [r \in Runs |-> 0]
    /\ job = [r \in Runs |-> NoId]
    /\ input_media = [r \in Runs |-> NoId]
    /\ new_media_entries = [r \in Runs |-> 0]
    /\ session = [r \in Runs |-> EmptySession]
    /\ user = [r \in Runs |-> NoUser]
    /\ deducted = [r \in Runs |-> ""]
    /\ debited = [r \in Runs |-> 0]
    /\ raisedAt = [r \in Runs |-> ""]
    /\ ledgerCall = NoCall
    /\ client = [r \in Runs |-> NoClient]
    /\ wire = [r \in Runs |-> <<>>]
    /\ remote = [r \in Runs |-> STATUS_IN_QUEUE]
    /\ queue = <<>>
    /\ apiResponse = NoApiResponse

InitTasks ==
    /\ media = {}
    /\ InitRest

Init ==
    /\ balance = [u \in Users |-> InitBalance]
    /\ InitTasks

\* ---------------------------------------------------------------- rows
GenerationJob(id, r) ==
    [id |-> id, user_id |-> request_data[r].user_id,
     credits_consumed |-> request_data[r].credit_cost,
     job_type |-> request_data[r].kind, task |-> r]

\* Mutant: origin_id is left at its default.
Media_without_origin(id, r, origin) ==
    [id |-> id, user_id |-> request_data[r].user_id, generation_job_id |-> job[r],
     origin_id |-> NoId, task |-> r]

Media(id, r, origin) ==
    [id |-> id, user_id |-> request_data[r].user_id, generation_job_id |-> job[r],
     origin_id |-> origin, task |-> r]

CreditTransaction(id, r) ==
    [id |-> id, user_id |-> request_data[r].user_id,
     amount |-> 0 - request_data[r].credit_cost, task |-> r]

\* ------------------------------------------------------- session handling
\* session.rollback() in the except clause, then the re-raise: the rows of the
\* open transaction and the unflushed objects are dropped; what an earlier
\* commit wrote stays.
Rollback(r, step) ==
    /\ session' = [session EXCEPT ![r] = EmptySession]
    /\ new_media_entries' = [new_media_entries EXCEPT ![r] = 0]
    /\ user' = [user EXCEPT ![r] = NoUser]
    /\ raisedAt' = [raisedAt EXCEPT ![r] = step]
    /\ pc' = [pc EXCEPT ![r] = "failed"]

\* session.commit(): the rows of the open transaction become visible, and a
\* dirty User object is written with the balance computed in Python.
Commit(r, rows) ==
    /\ jobs' = jobs \cup rows.jobs
    /\ media' = media \cup rows.media
    /\ txns' = txns \cup rows.txns
    /\ balance' = IF user[r].dirty
                  THEN [balance EXCEPT ![request_data[r].user_id] = user[r].credit_balance]
                  ELSE balance
    /\ debited' = IF user[r].dirty
                  THEN [debited EXCEPT ![r] = @ + balance[request_data[r].user_id]
                                                - user[r].credit_balance]
                  ELSE debited
    /\ user' = [user EXCEPT ![r] = [@ EXCEPT !.dirty = FALSE]]
    /\ session' = [session EXCEPT ![r] = EmptySession]

Goto(r, label) == pc' = [pc EXCEPT ![r] = label]

IsI2I(r) == request_data[r].kind = "image_to_image"

\* ------------------------------------------------------------ worker tasks
\* The broker hands the task to a worker (generate_media_from_*_task is
\* entered with its request_data and user_id).
TaskStart(r) ==
    /\ pc[r] = "queued"
    /\ \A q \in Runs : q < r => pc[q] # "queued"   \* tasks are taken in queue order
    /\ \E req \in Requests : request_data' = [request_data EXCEPT ![r] = req]
    /\ Goto(r, "remote")
    /\ UNCHANGED <<dbVars, blobs, response, generated_media, job, input_media,
                   new_media_entries, session, user, deducted, debited, raisedAt,
                   ledgerCall, clientVars, apiVars>>

\* worker.py 55 / 133: generated_media = generate_media_from_*(request_data),
\* before the try block and before any session exists.
RemoteCall(r) ==
    /\ pc[r] = "remote"
    /\ \E o \in RemoteBehaviours :
         LET resp == post_request(o)
             got == generate_media(resp)
         IN /\ response' = [response EXCEPT ![r] = resp]
            /\ IF got.raised
               THEN /\ Goto(r, "failed")
                    /\ raisedAt' = [raisedAt EXCEPT ![r] = "remote"]
                    /\ UNCHANGED generated_media
               ELSE /\ Goto(r, IF IsI2I(r) THEN "upload_input" ELSE "create_job")
                    /\ generated_media' = [generated_media EXCEPT ![r] = got.n]
                    /\ UNCHANGED raisedAt
    /\ UNCHANGED <<dbVars, blobs, request_data, job, input_media, new_media_entries,
                   session, user, deducted, debited, ledgerCall, clientVars, apiVars>>

\* worker.py 139-142 (image-to-image only): the input image is put into the
\* bucket before the job is created.
UploadInput(r) ==
    /\ pc[r] = "upload_input"
    /\ \/ /\ blobs' = [blobs EXCEPT ![r] = @ + 1]
          /\ Goto(r, "create_job")
          /\ UNCHANGED <<session, new_media_entries, user, raisedAt>>
       \/ /\ Rollback(r, "upload_input")
          /\ UNCHANGED blobs
    /\ UNCHANGED <<dbVars, request_data, response, generated_media, job, input_media,
                   deducted, debited, ledgerCall, clientVars, apiVars>>

\* worker.py 64-73 / 145-154: the GenerationJob is added and flushed, which
\* draws its id from the sequence; the row stays in the open transaction.
CreateJob(r) ==
    /\ pc[r] = "create_job"
    /\ \/ /\ job' = [job EXCEPT ![r] = nextJobId]
          /\ nextJobId' = nextJobId + 1
          /\ session' = [session EXCEPT ![r].jobs = @ \cup {GenerationJob(nextJobId, r)}]
          /\ Goto(r, IF IsI2I(r) THEN "add_input" ELSE "upload")
          /\ UNCHANGED <<new_media_entries, user, raisedAt>>
       \/ /\ Rollback(r, "create_job")
          /\ UNCHANGED <<job, nextJobId>>
    /\ UNCHANGED <<balance, jobs, media, txns, nextMediaId, nextTxnId, blobs,
                   request_data, response, generated_media, input_media, deducted,
                   debited, ledgerCall, clientVars, apiVars>>

\* worker.py 156-170 (image-to-image only): the input Media row, flushed.
AddInputMedia(r) ==
    /\ pc[r] = "add_input"
    /\ \/ /\ input_media' = [input_media EXCEPT ![r] = nextMediaId]
          /\ nextMediaId' = nextMediaId + 1
          /\ session' = [session EXCEPT ![r].media = @ \cup {Media(nextMediaId, r, NoId)}]
          /\ Goto(r, "upload")
          /\ UNCHANGED <<new_media_entries, user, raisedAt>>
       \/ /\ Rollback(r, "add_input")
          /\ UNCHANGED <<input_media, nextMediaId>>
    /\ UNCHANGED <<balance, jobs, media, txns, nextJobId, nextTxnId, blobs,
                   request_data, response, generated_media, job, deducted, debited,
                   ledgerCall, clientVars, apiVars>>

\* worker.py 76-93 / 173-191, one turn of the loop: upload the artifact, add
\* its Media object to the session.
UploadArtifact(r) ==
    /\ pc[r] = "upload"
    /\ new_media_entries[r] < generated_media[r]
    /\ \/ /\ blobs' = [blobs EXCEPT ![r] = @ + 1]
          /\ new_media_entries' = [new_media_entries EXCEPT ![r] = @ + 1]
          /\ UNCHANGED <<session, user, raisedAt, pc>>
       \/ /\ Rollback(r, "upload")
          /\ UNCHANGED blobs
    /\ UNCHANGED <<dbVars, request_data, response, generated_media, job, input_media,
                   deducted, debited, ledgerCall, clientVars, apiVars>>

\* worker.py 95 / 193: session.flush() after the loop gives every new Media
\* row its id; origin_id is the input row's id (None for text-to-image).
FlushMedia(r) ==
    /\ pc[r] = "upload"
    /\ new_media_entries[r] = generated_media[r]
    /\ \/ /\ session' = [session EXCEPT ![r].media = @ \cup
                 {Media(nextMediaId + k, r, input_media[r]) :
                      k \in 0..(new_media_entries[r] - 1)}]
          /\ nextMediaId' = nextMediaId + new_media_entries[r]
          /\ Goto(r, "respond")
          /\ UNCHANGED <<new_media_entries, user, raisedAt>>
       \/ /\ Rollback(r, "flush")
          /\ UNCHANGED nextMediaId
    /\ UNCHANGED <<balance, jobs, media, txns, nextJobId, nextTxnId, blobs,
                   request_data, response, generated_media, job, input_media,
                   deducted, debited, ledgerCall, clientVars, apiVars>>

\* worker.py 98-102 / 196-200: the responses with presigned URLs.
PrepareResponse(r) ==
    /\ pc[r] = "respond"
    /\ \/ /\ Goto(r, "deduct")
          /\ UNCHANGED <<session, new_media_entries, user, raisedAt>>
       \/ Rollback(r, "respond")
    /\ UNCHANGED <<dbVars, blobs, request_data, response, generated_media, job,
                   input_media, deducted, debited, ledgerCall, clientVars, apiVars>>

\* worker.py 104 / 202 into crud.py 70-77: deduct_user_credits selects the
\* user and either returns False or lowers the balance on the loaded object.
\* The worker does not look at the return value.
DeductSelect(r) ==
    /\ pc[r] = "deduct"
    /\ \/ /\ LET d == deduct_user_credits(balance, request_data[r].user_id,
                                          request_data[r].credit_cost)
             IN IF d.write
                THEN /\ user' = [user EXCEPT ![r] =
                           [loaded |-> TRUE, dirty |-> TRUE, credit_balance |-> d.value]]
                     /\ Goto(r, "deduct_commit")
                     /\ UNCHANGED deducted
                ELSE /\ deducted' = [deducted EXCEPT ![r] = "False"]
                     /\ Goto(r, "add_txn")
                     /\ UNCHANGED user
          /\ UNCHANGED <<session, new_media_entries, raisedAt>>
       \/ /\ Rollback(r, "deduct")
          /\ UNCHANGED deducted
    /\ UNCHANGED <<dbVars, blobs, request_data, response, generated_media, job,
                   input_media, debited, ledgerCall, clientVars, apiVars>>

\* crud.py 78-80: session.add(user); session.commit(); return True.  The
\* commit ends the task's transaction: the job and media rows flushed so far
\* are committed together with the new balance.
DeductCommit(r) ==
    /\ pc[r] = "deduct_commit"
    /\ \/ /\ Commit(r, session[r])
          /\ deducted' = [deducted EXCEPT ![r] = "True"]
          /\ Goto(r, "add_txn")
          /\ UNCHANGED <<new_media_entries, raisedAt>>
       \/ /\ Rollback(r, "deduct_commit")
          /\ UNCHANGED <<balance, jobs, media, txns, deducted, debited>>
    /\ UNCHANGED <<nextJobId, nextMediaId, nextTxnId, blobs, request_data, response,
                   generated_media, job, input_media, ledgerCall, clientVars, apiVars>>

\* worker.py 105-113 / 203-211: the CreditTransaction is added and the
\* session committed (with whatever the transaction still holds).
AddTransaction(r) ==
    /\ pc[r] = "add_txn"
    /\ \/ /\ Commit(r, [session[r] EXCEPT !.txns = @ \cup {CreditTransaction(nextTxnId, r)}])
          /\ nextTxnId' = nextTxnId + 1
          /\ Goto(r, "refresh")
          /\ UNCHANGED <<new_media_entries, raisedAt>>
       \/ /\ Rollback(r, "add_txn")
          /\ UNCHANGED <<balance, jobs, media, txns, nextTxnId, debited>>
    /\ UNCHANGED <<nextJobId, nextMediaId, blobs, request_data, response,
                   generated_media, job, input_media, deducted, ledgerCall, clientVars, apiVars>>

\* worker.py 114-123 / 212-223: session.refresh(job), build and return the
\* result with status COMPLETED.
ReturnResult(r) ==
    /\ pc[r] = "refresh"
    /\ \/ /\ Goto(r, "done")
          /\ UNCHANGED <<session, new_media_entries, user, raisedAt>>
       \/ Rollback(r, "refresh")
    /\ UNCHANGED <<dbVars, blobs, request_data, response, generated_media, job,
                   input_media, deducted, debited, ledgerCall, clientVars, apiVars>>

Task(r) ==
    \/ TaskStart(r) \/ RemoteCall(r) \/ UploadInput(r) \/ CreateJob(r)
    \/ AddInputMedia(r) \/ UploadArtifact(r) \/ FlushMedia(r) \/ PrepareResponse(r)
    \/ DeductSelect(r) \/ DeductCommit(r) \/ AddTransaction(r) \/ ReturnResult(r)

Next == \E r \in Runs : Task(r)

Spec == Init /\ [][Next]_vars

\* ------------------------------------------------- the ledger called alone
\* One call of crud.deduct_user_credits with a session of its own and nothing
\* running beside it: select, check, decrement and commit.
CallDeduct(uid, amount) ==
    LET d == deduct_user_credits(balance, uid, amount)
    IN /\ balance' = IF d.write THEN [balance EXCEPT ![uid] = d.value] ELSE balance
       /\ ledgerCall' = [op |-> "deduct_user_credits", user_id |-> uid,
                         amount |-> amount,
                         before |-> IF uid \in Users THEN balance[uid] ELSE 0,
                         ret |-> d.ret]
       /\ UNCHANGED <<jobs, media, txns, nextJobId, nextMediaId, nextTxnId, taskVars, clientVars, apiVars>>

\* One call of crud.has_sufficient_credits.
CallHasSufficient(uid, required_credits) ==
    /\ ledgerCall' = [op |-> "has_sufficient_credits", user_id |-> uid,
                      amount |-> required_credits,
                      before |-> IF uid \in Users THEN balance[uid] ELSE 0,
                      ret |-> has_sufficient_credits(balance, uid, required_credits)]
    /\ UNCHANGED <<dbVars, taskVars, clientVars, apiVars>>

Amounts == 0..(InitBalance + 1)

InitLedger ==
    /\ balance \in [Users -> 0..InitBalance]
    /\ InitTasks

NextLedger ==
    \E uid \in UserIds, a \in Amounts :
        \/ CallDeduct(uid, a)
        \/ CallHasSufficient(uid, a)

SpecLedger == InitLedger /\ [][NextLedger]_vars

\* ---------------------------------------- one generation call, step by step
ClientRuns == {1}
Modes == {"text_to_image", "image_to_image", "direct"}
Mutators == {"seed", "positive", "negative", "batch", "image"}

\* request_data['positive_prompt'], ['negative_prompt'] and ['input_image']:
\* every request has its own.
PromptOf(c) == c
ImageOf(c) == c

ClientQuiet == UNCHANGED <<dbVars, taskVars, ledgerCall, apiVars, remote>>

GetCount(w) == Cardinality({i \in 1..Len(w) : w[i].op = "GET"})
PostCount(w) == Cardinality({i \in 1..Len(w) : w[i].op = "POST"})
SleepCount(w) == Cardinality({i \in 1..Len(w) : w[i].op = "SLEEP"})

\* utils.generate_media_from_text sets the negative prompt only when the
\* request has a non-empty one; generate_media_from_media never does and
\* attaches the input image after the batch size.
AfterPositive(k) ==
    IF k.mode # "image_to_image" /\ k.has_negative THEN "negative" ELSE "batch"
AfterBatch(k) ==
    IF k.mode = "text_to_image" THEN "submit" ELSE "image"

\* An exception leaving the client.
ClientRaises(k, err) ==
    [k EXCEPT !.pc = "returned", !.result = Raised, !.error = err]

\* A mutator has run: the workflow it left, and where the caller goes next.
Mutated(k, step, out, next) ==
    IF out.raised
    THEN [ClientRaises(k, "NodeNotFound") EXCEPT
             !.workflow = out.workflow, !.called = @ \cup {step}]
    ELSE [k EXCEPT !.pc = next, !.workflow = out.workflow,
                   !.called = @ \cup {step}]

\* ComfyUIClient(...) built by the generation functions (asynchronous
\* submission) or by a direct user of the class (either submission).
NewClient(c) ==
    /\ client[c].pc = "idle"
    /\ \E mode \in Modes, neg \in BOOLEAN, sync \in BOOLEAN, seed \in Seeds :
         /\ mode # "direct" => ~sync
         /\ client' = [client EXCEPT ![c] =
                [NoClient EXCEPT !.pc = "load", !.mode = mode,
                                 !.has_negative = neg, !.run_sync = sync,
                                 !.seed = seed]]
    /\ UNCHANGED wire
    /\ ClientQuiet

\* load_workflow: the template read from the file holds some of the mapped
\* nodes; an unreadable file raises.
LoadWorkflow(c) ==
    /\ client[c].pc = "load"
    /\ \/ \E nodes \in SUBSET Nodes :
            client' = [client EXCEPT ![c] =
                [@ EXCEPT !.pc = "seed", !.workflow = [n \in nodes |-> 0]]]
       \/ client' = [client EXCEPT ![c] = ClientRaises(@, "Configuration")]
    /\ UNCHANGED wire
    /\ ClientQuiet

\* Mutant: the workflow is one dictionary shared by all clients.
UpdateSeed_shared(c) ==
    /\ client[c].pc = "seed"
    /\ LET k == client[c]
           out == update_seed_node(k.workflow, k.seed)
       IN  client' = [x \in Runs |->
               IF x = c THEN Mutated(k, "seed", out, "positive")
               ELSE IF "seed" \in DOMAIN client[x].workflow
                    THEN [client[x] EXCEPT !.workflow["seed"] = k.seed]
                    ELSE client[x]]
    /\ UNCHANGED wire
    /\ ClientQuiet

UpdateSeed(c) ==
    /\ client[c].pc = "seed"
    /\ LET k == client[c]
           out == update_seed_node(k.workflow, k.seed)
       IN  client' = [client EXCEPT ![c] = Mutated(k, "seed", out, "positive")]
    /\ UNCHANGED wire
    /\ ClientQuiet

UpdatePositive(c) ==
    /\ client[c].pc = "positive"
    /\ LET k == client[c]
           out == update_positive_prompt(k.workflow, PromptOf(c))
       IN  client' = [client EXCEPT ![c] =
                         Mutated(k, "positive", out, AfterPositive(k))]
    /\ UNCHANGED wire
    /\ ClientQuiet

UpdateNegative(c) ==
    /\ client[c].pc = "negative"
    /\ LET k == client[c]
           out == update_negative_prompt(k.workflow, PromptOf(c))
       IN  client' = [client EXCEPT ![c] = Mutated(k, "negative", out, "batch")]
    /\ UNCHANGED wire
    /\ ClientQuiet

UpdateBatch(c) ==
    /\ client[c].pc = "batch"
    /\ LET k == client[c]
           out == update_output_batch(k.workflow, NumOutputs)
       IN  client' = [client EXCEPT ![c] =
                         Mutated(k, "batch", out, AfterBatch(k))]
    /\ UNCHANGED wire
    /\ ClientQuiet

\* generate_media_from_media calls update_input_image; a direct user of the
\* class has upload_image.
AttachImage(c) ==
    /\ client[c].pc = "image"
    /\ LET k == client[c]
           out == IF k.mode = "image_to_image"
                  THEN update_input_image(k.workflow, k.images, ImageOf(c))
                  ELSE upload_image(k.workflow, k.images, ImageOf(c))
       IN  client' = [client EXCEPT ![c] =
                [Mutated(k, "image", out, "submit") EXCEPT !.images = out.images]]
    /\ UNCHANGED wire
    /\ ClientQuiet

\* queue_prompt_async / queue_prompt_sync: post_request up to the point where
\* it returns, raises or enters poll_for_completion.
Submit(c) ==
    /\ client[c].pc = "submit"
    /\ \E ans \in PostAnswers :
         LET o == post_request_step(ans)
         IN  /\ wire' = [wire EXCEPT ![c] = Append(@, PostEvent(ans))]
             /\ client' = [client EXCEPT ![c] =
                    [@ EXCEPT !.pc = o.next, !.result = o.result,
                              !.request_id = IF o.next = "poll" THEN ans.id ELSE @,
                              !.payload = [workflow |-> client[c].workflow,
                                           images |-> client[c].images]]]
    /\ ClientQuiet

\* One turn of the loop of poll_for_completion.
PollOnce(c) ==
    /\ client[c].pc = "poll"
    /\ GetCount(wire[c]) < MaxPolls
    /\ \E ans \in PollAnswers :
         LET o == poll_iteration(ans)
             slept == IF o.sleep > 0 THEN <<SleepEvent(o.sleep)>> ELSE <<>>
         IN  /\ wire' = [wire EXCEPT ![c] =
                    @ \o <<GetEvent(client[c].request_id, ans)>> \o slept]
             /\ client' = [client EXCEPT ![c] =
                    [@ EXCEPT !.pc = o.next, !.result = o.result]]
    /\ ClientQuiet

\* generate_media_from_text / generate_media_from_media once the client call
\* is over: the artifacts are handed to the worker, or the exception is
\* re-raised (the worker's remote call is outside its try block).
UtilsResult(c) ==
    /\ client[c].pc = "returned"
    /\ client[c].mode # "direct"
    /\ client' = [client EXCEPT ![c].pc =
           IF generate_media(client[c].result).raised
           THEN "failed" ELSE "artifacts"]
    /\ UNCHANGED wire
    /\ ClientQuiet

\* The worker's try block, as far as the remote endpoint can see it: uploads,
\* rows, debit and commit succeed, or something raises and is rolled back.
\* Neither path calls the client again.
Persist(c) ==
    /\ client[c].pc = "artifacts"
    /\ \E ok \in BOOLEAN :
         client' = [client EXCEPT ![c] =
             [@ EXCEPT !.pc = IF ok THEN "done" ELSE "failed",
                       !.error = IF ok THEN "" ELSE "Persistence"]]
    /\ UNCHANGED wire
    /\ ClientQuiet

ClientStep(c) ==
    \/ NewClient(c)
    \/ LoadWorkflow(c)
    \/ UpdateSeed(c)
    \/ UpdatePositive(c)
    \/ UpdateNegative(c)
    \/ UpdateBatch(c)
    \/ AttachImage(c)
    \/ Submit(c)
    \/ PollOnce(c)
    \/ UtilsResult(c)
    \/ Persist(c)

NextClient == \E c \in ClientRuns : ClientStep(c)

SpecClient == Init /\ [][NextClient]_vars

\* ---------------------------------------------------- the generation routes
MaxQueue == 2           \* requests explored by the API layer

\* celery's delay(): the task is put on the queue and its id handed back.
Enqueue(q, kind, uid) == Append(q, [id |-> Len(q) + 1, kind |-> kind, user_id |-> uid])

\* Mutant: the route enqueues without looking at the balance.
generate_route_unchecked(bal, q, kind, uid, num_outputs) ==
    [queue |-> Enqueue(q, kind, uid), status_code |-> 200, detail |-> "",
     task_id |-> Len(q) + 1]

\* POST /generate/text and /generate/media (api/routes/media.py): has_sufficient_credits with
\* required_credits = request.num_outputs, HTTPException(400) or delay().
generate_route(bal, q, kind, uid, num_outputs) ==
    IF ~has_sufficient_credits(bal, uid, num_outputs)
    THEN [queue |-> q, status_code |-> 400, detail |-> "Insufficient credits",
          task_id |-> NoId]
    ELSE [queue |-> Enqueue(q, kind, uid), status_code |-> 200, detail |-> "",
          task_id |-> Len(q) + 1]

GenerateRequest(kind, uid, num_outputs) ==
    LET out == generate_route(balance, queue, kind, uid, num_outputs)
    IN  /\ queue' = out.queue
        /\ apiResponse' = [kind |-> kind, user_id |-> uid,
                           num_outputs |-> num_outputs,
                           status_code |-> out.status_code,
                           detail |-> out.detail, task_id |-> out.task_id]
        /\ UNCHANGED <<dbVars, taskVars, ledgerCall, clientVars>>

RequestedOutputs == 1..(InitBalance + 1)

generate_media_from_text ==
    /\ Len(queue) < MaxQueue
    /\ \E uid \in Users, num_outputs \in RequestedOutputs :
         GenerateRequest("text_to_image", uid, num_outputs)

generate_media_by_media ==
    /\ Len(queue) < MaxQueue
    /\ \E uid \in Users, num_outputs \in RequestedOutputs :
         GenerateRequest("image_to_image", uid, num_outputs)

NextApi ==
    \/ generate_media_from_text
    \/ generate_media_by_media

SpecApi == InitLedger /\ [][NextApi]_vars

\* ------------------------------------------------------- the status route
StatusRuns == {1}

\* The dictionary a task returns (worker.py 116-123).
TaskResult(r) ==
    [status |-> "COMPLETED", job_id |-> job[r],
     generated_media |-> Cardinality({m \in media : m.task = r /\ m.origin_id = input_media[r]
                                                     /\ m.id # input_media[r]}),
     credits_consumed |-> request_data[r].credit_cost]
NoResult == [status |-> "", job_id |-> NoId, generated_media |-> 0, credits_consumed |-> 0]

\* celery's AsyncResult of a task: SUCCESS with the return value once the
\* function has returned, FAILURE with the exception once it has raised,
\* PENDING until then.
AsyncResult(r) ==
    [ready |-> pc[r] \in {"done", "failed"},
     successful |-> pc[r] = "done",
     result |-> IF pc[r] = "done" THEN TaskResult(r) ELSE NoResult,
     exception |-> IF pc[r] = "failed" THEN raisedAt[r] ELSE ""]

\* Mutant: successful() is asked without ready().
get_task_status_skips_ready(task_id, task_result) ==
    IF task_result.successful
    THEN [kind |-> "get_task_status", task_id |-> task_id, status |-> "completed",
          result |-> task_result.result, error |-> "", progress |-> 0]
    ELSE [kind |-> "get_task_status", task_id |-> task_id, status |-> "failed",
          result |-> NoResult, error |-> task_result.exception, progress |-> 0]

\* GET /task/{task_id} (api/routes/media.py)
get_task_status(task_id, task_result) ==
    IF task_result.ready
    THEN IF task_result.successful
         THEN [kind |-> "get_task_status", task_id |-> task_id, status |-> "completed",
               result |-> task_result.result, error |-> "", progress |-> 0]
         ELSE [kind |-> "get_task_status", task_id |-> task_id, status |-> "failed",
               result |-> NoResult, error |-> task_result.exception, progress |-> 0]
    ELSE [kind |-> "get_task_status", task_id |-> task_id, status |-> "processing",
          result |-> NoResult, error |-> "", progress |-> 0]

GetTaskStatus(r) ==
    /\ apiResponse' = get_task_status(r, AsyncResult(r))
    /\ UNCHANGED <<dbVars, taskVars, ledgerCall, clientVars, queue>>

NextStatus == \E r \in StatusRuns : Task(r) \/ GetTaskStatus(r)

SpecStatus == Init /\ [][NextStatus]_vars

\* ------------------------------------------- the poll loop without a bound
\* The job at the endpoint moves from IN_QUEUE to IN_PROGRESS and from there
\* to a final status.
RemoteAdvance(c) ==
    /\ client[c].pc = "poll"
    /\ \/ /\ remote[c] = STATUS_IN_QUEUE
          /\ remote' = [remote EXCEPT ![c] = STATUS_IN_PROGRESS]
       \/ /\ remote[c] = STATUS_IN_PROGRESS
          /\ \E st \in FinalStatuses \ {NoStatus} : remote' = [remote EXCEPT ![c] = st]
    /\ UNCHANGED <<dbVars, taskVars, ledgerCall, apiVars, client, wire>>

\* The history keeps the first MaxPolls status requests only.
Recorded(w, events) == IF GetCount(w) < MaxPolls THEN w \o events ELSE w

\* One turn of the loop, however many went before it.
PollTurn(c, ans) ==
    LET o == poll_iteration(ans)
        slept == IF o.sleep > 0 THEN <<SleepEvent(o.sleep)>> ELSE <<>>
    IN  /\ client[c].pc = "poll"
        /\ wire' = [wire EXCEPT ![c] =
               Recorded(@, <<GetEvent(client[c].request_id, ans)>> \o slept)]
        /\ client' = [client EXCEPT ![c] =
               [@ EXCEPT !.pc = o.next, !.result = o.result]]
        /\ ClientQuiet

\* The status request is answered 200 with the job's status.
PollAnswered(c) ==
    \E ans \in PollAnswers :
        /\ ans.http = "ok"
        /\ ans.body.status = remote[c]
        /\ PollTurn(c, ans)

\* The status request raises or is answered with another status code.
PollTransportFailure(c) ==
    \E ans \in PollAnswers :
        /\ ans.http # "ok"
        /\ PollTurn(c, ans)

ClientStepLive(c) ==
    \/ NewClient(c)
    \/ LoadWorkflow(c)
    \/ UpdateSeed(c)
    \/ UpdatePositive(c)
    \/ UpdateNegative(c)
    \/ UpdateBatch(c)
    \/ AttachImage(c)
    \/ Submit(c)
    \/ RemoteAdvance(c)
    \/ PollAnswered(c)
    \/ PollTransportFailure(c)

NextClientLive == \E c \in ClientRuns : ClientStepLive(c)

\* The loop takes its next turn when the sleep is over, and the job at the
\* endpoint does not stay pending for ever.
SpecClientLive ==
    /\ Init
    /\ [][NextClientLive]_vars
    /\ \A c \in ClientRuns : WF_vars(PollAnswered(c)) /\ WF_vars(RemoteAdvance(c))

\* ------------------------------------------------ a task delivered twice
FirstRun == 1

\* The steps of a task after it was handed to the worker.
TaskBody(r) ==
    \/ RemoteCall(r) \/ UploadInput(r) \/ CreateJob(r)
    \/ AddInputMedia(r) \/ UploadArtifact(r) \/ FlushMedia(r) \/ PrepareResponse(r)
    \/ DeductSelect(r) \/ DeductCommit(r) \/ AddTransaction(r) \/ ReturnResult(r)

\* Mutant: a message whose task has already returned is acknowledged without
\* running the function again.
Redelivery_suppressed(r) ==
    /\ pc[r] = "queued"
    /\ \A q \in Runs : q < r => pc[q] \in {"done", "failed"}
    /\ \E q \in Runs :
         /\ q < r /\ pc[q] = "done"
         /\ request_data' = [request_data EXCEPT ![r] = request_data[q]]
    /\ Goto(r, "done")
    /\ UNCHANGED <<dbVars, blobs, response, generated_media, job, input_media,
                   new_media_entries, session, user, deducted, debited, raisedAt,
                   ledgerCall, clientVars, apiVars>>

\* The broker delivers the message of a task that has already returned once
\* more: generate_media_from_*_task is entered again with the same
\* request_data and user_id, and nothing in it looks for an earlier execution.
Redelivery(r) ==
    /\ pc[r] = "queued"
    /\ \A q \in Runs : q < r => pc[q] \in {"done", "failed"}
    /\ \E q \in Runs :
         /\ q < r /\ pc[q] = "done"
         /\ request_data' = [request_data EXCEPT ![r] = request_data[q]]
    /\ Goto(r, "remote")
    /\ UNCHANGED <<dbVars, blobs, response, generated_media, job, input_media,
                   new_media_entries, session, user, deducted, debited, raisedAt,
                   ledgerCall, clientVars, apiVars>>

NextRedelivery ==
    \/ TaskStart(FirstRun)
    \/ \E r \in Runs \ {FirstRun} : Redelivery(r)
    \/ \E r \in Runs : TaskBody(r)

SpecRedelivery == Init /\ [][NextRedelivery]_vars

\* -------------------------------------------- generation calls side by side
\* Two worker processes run generate_media_from_text / _from_media at the
\* same time; each reads the deployed template, which has all mapped nodes.
ConcurrentRuns == {1, 2}

IsolatedStep(c) ==
    \/ NewClient(c) /\ client'[c].mode # "direct"
    \/ LoadWorkflow(c) /\ DOMAIN client'[c].workflow = Nodes
    \/ UpdateSeed(c)
    \/ UpdatePositive(c)
    \/ UpdateNegative(c)
    \/ UpdateBatch(c)
    \/ AttachImage(c)
    \/ Submit(c)

NextIsolation == \E c \in ConcurrentRuns : IsolatedStep(c)

SpecIsolation == Init /\ [][NextIsolation]_vars

\* ------------------------------------------------ update and delete routes
NumMedia == 2           \* media rows in the library

MediaIds == 1..NumMedia
MissingMediaId == NumMedia + 1
CurrentUsers == [id : Users, is_superuser : BOOLEAN]

\* A media row as the routes see it.
LibraryRow(id, owner, is_public) ==
    [id |-> id, user_id |-> owner, generation_job_id |-> NoId, origin_id |-> NoId,
     task |-> 0, is_public |-> is_public]

\* session.get(Media, media_id)
GetMedia(rows, media_id) == {m \in rows : m.id = media_id}

\* Mutant: the owner is not compared with the caller.
update_media_unowned(rows, media_id, current_user, is_public) ==
    IF GetMedia(rows, media_id) = {}
    THEN [status_code |-> 404, detail |-> "Media not found", media |-> rows]
    ELSE LET m == CHOOSE x \in GetMedia(rows, media_id) : TRUE
         IN  [status_code |-> 200, detail |-> "",
              media |-> (rows \ {m}) \cup {[m EXCEPT !.is_public = is_public]}]

\* PATCH /{media_id}: 404, 403, or the fields of the request are set on the
\* row and committed.
update_media(rows, media_id, current_user, is_public) ==
    IF GetMedia(rows, media_id) = {}
    THEN [status_code |-> 404, detail |-> "Media not found", media |-> rows]
    ELSE LET m == CHOOSE x \in GetMedia(rows, media_id) : TRUE
         IN  IF m.user_id # current_user.id /\ ~current_user.is_superuser
             THEN [status_code |-> 403, detail |-> "Not enough permissions",
                   media |-> rows]
             ELSE [status_code |-> 200, detail |-> "",
                   media |-> (rows \ {m}) \cup {[m EXCEPT !.is_public = is_public]}]

\* DELETE /{media_id}: 404, 403, or delete_media_from_s3_task.delay(); the
\* row itself is left to the task.
delete_media(rows, q, media_id, current_user) ==
    IF GetMedia(rows, media_id) = {}
    THEN [status_code |-> 404, detail |-> "Media not found", queue |-> q,
          task_id |-> NoId]
    ELSE LET m == CHOOSE x \in GetMedia(rows, media_id) : TRUE
         IN  IF m.user_id # current_user.id /\ ~current_user.is_superuser
             THEN [status_code |-> 403, detail |-> "Not enough permissions",
                   queue |-> q, task_id |-> NoId]
             ELSE [status_code |-> 200, detail |-> "Media deletion initiated",
                   queue |-> Append(q, [id |-> Len(q) + 1,
                                        kind |-> "delete_media_from_s3_task",
                                        media_id |-> media_id]),
                   task_id |-> Len(q) + 1]

MediaAnswer(kind, media_id, current_user, out, task_id) ==
    [kind |-> kind, user_id |-> current_user.id,
     is_superuser |-> current_user.is_superuser, media_id |-> media_id,
     status_code |-> out.status_code, detail |-> out.detail, task_id |-> task_id]

UpdateMedia ==
    \E media_id \in MediaIds \cup {MissingMediaId}, current_user \in CurrentUsers,
       is_public \in BOOLEAN :
        LET out == update_media(media, media_id, current_user, is_public)
        IN  /\ media' = out.media
            /\ apiResponse' = MediaAnswer("update_media", media_id, current_user, out, NoId)
            /\ UNCHANGED <<balance, jobs, txns, nextJobId, nextMediaId, nextTxnId,
                           taskVars, ledgerCall, clientVars, queue>>

DeleteMedia ==
    /\ Len(queue) < MaxQueue
    /\ \E media_id \in MediaIds \cup {MissingMediaId}, current_user \in CurrentUsers :
        LET out == delete_media(media, queue, media_id, current_user)
        IN  /\ queue' = out.queue
            /\ apiResponse' = MediaAnswer("delete_media", media_id, current_user, out,
                                          out.task_id)
            /\ UNCHANGED <<dbVars, taskVars, ledgerCall, clientVars>>

\* The library holds rows of earlier runs, each owned by some user.
InitMedia ==
    /\ balance = [u \in Users |-> InitBalance]
    /\ \E owner \in [MediaIds -> Users], pub \in [MediaIds -> BOOLEAN] :
         media = {LibraryRow(i, owner[i], pub[i]) : i \in MediaIds}
    /\ InitRest

NextMedia == UpdateMedia \/ DeleteMedia

SpecMedia == InitMedia /\ [][NextMedia]_vars

\* ================================================================ claims
JobsOf(r) == {j \in jobs : j.task = r}
MediaOf(r) == {m \in media : m.task = r}
TxnsOf(r) == {t \in txns : t.task = r}
NoRowsOf(r) == JobsOf(r) = {} /\ MediaOf(r) = {} /\ TxnsOf(r) = {}
Terminal(r) == pc[r] \in {"done", "failed"}
Called(r) == pc[r] \notin {"queued", "remote"}

\* The remote call of task r failed: the request raised, the endpoint
\* answered non-200 or a status that made the client return nothing, or the
\* returned body carries a status other than COMPLETED.
RemoteFailed(r) ==
    /\ Called(r)
    /\ \/ response[r].kind \in {"raise", "none"}
       \/ response[r].body.status # STATUS_COMPLETED

\* C1: a run whose remote call failed creates no GenerationJob, Media or
\* CreditTransaction row (committed or in its session), uploads nothing, ends
\* in failure and leaves the balance as it was.
C1_RemoteFailureLeavesNoTrace ==
    \A r \in Runs :
        RemoteFailed(r) =>
            /\ pc[r] = "failed"
            /\ NoRowsOf(r)
            /\ session[r] = EmptySession
            /\ debited[r] = 0

\* C1 witness: one task failed on a body with status FAILED that has an
\* output, while another task ran to the end and committed its rows.
C1_Witness ==
    \E r, q \in Runs :
        /\ RemoteFailed(r) /\ response[r].kind = "json" /\ response[r].body.hasMessage
        /\ pc[r] = "failed"
        /\ pc[q] = "done" /\ JobsOf(q) # {}

\* C2: no user's committed credit_balance is ever below zero.
C2_BalanceNeverNegative == \A u \in Users : balance[u] >= 0

\* C2 witness: two tasks of the same user both went through the decrement
\* and the balance stands at zero.
C2_Witness ==
    \E r, q \in Runs :
        /\ r # q /\ request_data[r].user_id = request_data[q].user_id
        /\ deducted[r] = "True" /\ deducted[q] = "True"
        /\ balance[request_data[r].user_id] = 0

\* C3 (as claimed): two tasks of one user, balance 5, cost 5 each, both remote
\* calls good and no upload, flush, select or commit of either task hit by a
\* fault: when both tasks have ended, one returned COMPLETED with the balance
\* at 0 and the other failed with none of its job or media rows committed.
C3_DebitRaceOneWins ==
    \A a, b \in Runs :
        ( /\ a # b
          /\ request_data[a].user_id = request_data[b].user_id
          /\ request_data[a].credit_cost = InitBalance
          /\ request_data[b].credit_cost = InitBalance
          /\ Terminal(a) /\ Terminal(b)
          /\ ~RemoteFailed(a) /\ ~RemoteFailed(b)
          /\ raisedAt[a] = "" /\ raisedAt[b] = "" )
        => \E w, l \in {a, b} :
              /\ w # l
              /\ pc[w] = "done" /\ pc[l] = "failed"
              /\ balance[request_data[a].user_id] = 0
              /\ JobsOf(l) = {} /\ MediaOf(l) = {}

\* C4 (as claimed): a task whose debit was refused ends in failure with no
\* row of its own committed.
C4_RefusedDebitRollsBack ==
    \A r \in Runs :
        (deducted[r] = "False" /\ Terminal(r)) => (pc[r] = "failed" /\ NoRowsOf(r))

\* Steps at which the GenerationJob is already staged and the final commit
\* has not returned yet.
StagedSteps ==
    {"create_job", "add_input", "upload", "flush", "respond", "deduct",
     "deduct_commit", "add_txn"}

\* C5 (as claimed): a task that raised after staging its job has nothing
\* committed: no job, no media, no transaction row, no decrement.
C5_AllOrNothing ==
    \A r \in Runs :
        (pc[r] = "failed" /\ raisedAt[r] \in StagedSteps) =>
            (NoRowsOf(r) /\ debited[r] = 0)

\* C6 (as claimed): a task that returned COMPLETED has exactly one
\* CreditTransaction row, credits_consumed of its job is the magnitude of that
\* row's amount, and its commit lowered the balance by that amount.
C6_CompletedRunCharged ==
    \A r \in Runs :
        pc[r] = "done" =>
            /\ Cardinality(TxnsOf(r)) = 1
            /\ \A t \in TxnsOf(r), j \in JobsOf(r) :
                   /\ t.amount < 0
                   /\ j.credits_consumed = 0 - t.amount
                   /\ debited[r] = 0 - t.amount

\* C7: deduct_user_credits called alone: False and no change when the user is
\* missing or balance < amount; otherwise True and balance lowered by amount.
C7_DebitAlone ==
    ledgerCall.op = "deduct_user_credits" =>
        LET u == ledgerCall.user_id
            a == ledgerCall.amount
        IN IF u \notin Users THEN ledgerCall.ret = FALSE
           ELSE IF ledgerCall.before < a
                THEN ledgerCall.ret = FALSE /\ balance[u] = ledgerCall.before
                ELSE ledgerCall.ret = TRUE /\ balance[u] = ledgerCall.before - a

\* C7 witness: a debit of exactly the balance succeeded and left 0.
C7_Witness ==
    /\ ledgerCall.op = "deduct_user_credits"
    /\ ledgerCall.user_id \in Users
    /\ ledgerCall.amount > 0 /\ ledgerCall.before = ledgerCall.amount
    /\ ledgerCall.ret = TRUE
    /\ balance[ledgerCall.user_id] = 0

\* C8: a call of has_sufficient_credits changes no balance and no row, and
\* its result is TRUE exactly when the user exists and balance >= required
\* (so it is the same for the same arguments and balance).
C8_HasSufficientReadOnly ==
    [][ (ledgerCall'.op = "has_sufficient_credits" /\ ledgerCall' # ledgerCall) =>
          /\ UNCHANGED <<dbVars, taskVars, clientVars, apiVars>>
          /\ ledgerCall'.ret =
                 (/\ ledgerCall'.user_id \in Users
                  /\ balance[ledgerCall'.user_id] >= ledgerCall'.amount) ]_vars

\* C8 witness: the check answered TRUE for a balance equal to the amount.
C8_Witness ==
    /\ ledgerCall.op = "has_sufficient_credits"
    /\ ledgerCall.user_id \in Users
    /\ ledgerCall.ret = TRUE
    /\ balance[ledgerCall.user_id] = ledgerCall.amount

\* Generated (not input) Media rows of task r.
GeneratedOf(r) == {m \in MediaOf(r) : m.id # input_media[r]}

\* C9: a task that returned COMPLETED has as many generated Media rows as
\* the remote job returned artifacts, whatever num_outputs asked for.
C9_OneRowPerArtifact ==
    \A r \in Runs :
        pc[r] = "done" => Cardinality(GeneratedOf(r)) = response[r].body.n

\* C9 witness: a completed task that got fewer artifacts than requested.
C9_Witness ==
    \E r \in Runs :
        /\ pc[r] = "done"
        /\ response[r].body.n > 0
        /\ response[r].body.n < request_data[r].num_outputs
        /\ Cardinality(GeneratedOf(r)) = response[r].body.n

\* C10: an image-to-image task that returned COMPLETED and got as many
\* artifacts as num_outputs (3) has 1 input row plus num_outputs derived rows,
\* every derived row's origin_id is the input row's id, and all rows carry
\* the id of the task's single GenerationJob.
C10_ImageToImageLineage ==
    \A r \in Runs :
        ( /\ pc[r] = "done" /\ IsI2I(r)
          /\ response[r].body.n = request_data[r].num_outputs )
        => /\ Cardinality(MediaOf(r)) = 1 + request_data[r].num_outputs
           /\ Cardinality({m \in MediaOf(r) : m.id = input_media[r]}) = 1
           /\ \A m \in GeneratedOf(r) : m.origin_id = input_media[r]
           /\ input_media[r] # NoId
           /\ Cardinality(JobsOf(r)) = 1
           /\ \A m \in MediaOf(r), j \in JobsOf(r) : m.generation_job_id = j.id

\* C10 witness: such a task with num_outputs = 3 and 3 artifacts.
C10_Witness ==
    \E r \in Runs :
        /\ pc[r] = "done" /\ IsI2I(r)
        /\ request_data[r].num_outputs = 3 /\ response[r].body.n = 3
        /\ Cardinality(MediaOf(r)) = 4


\* ------------------------------------------------ C11..C19: the remote client
IsGet(e) == e.op = "GET"
IsSleep(e) == e.op = "SLEEP"
Gets(w) == SelectSeq(w, IsGet)
Sleeps(w) == SelectSeq(w, IsSleep)
Ok(e, status) == e.http = "ok" /\ e.body.status = status
Ops(w) == [i \in 1..Len(w) |-> w[i].op]

\* The client call is over: post_request has returned or raised.
CallOver(c) == client[c].pc \in {"returned", "artifacts", "failed", "done"}

\* The status requests began with 200 IN_QUEUE, 200 IN_PROGRESS, 200 COMPLETED.
ScriptedQueueProgressCompleted(w) ==
    /\ Len(Gets(w)) >= 3
    /\ Ok(Gets(w)[1], STATUS_IN_QUEUE)
    /\ Ok(Gets(w)[2], STATUS_IN_PROGRESS)
    /\ Ok(Gets(w)[3], STATUS_COMPLETED)

\* C11: when the status requests are answered 200 IN_QUEUE, 200 IN_PROGRESS,
\* 200 COMPLETED in that order, the client has made exactly 3 status requests
\* and slept exactly twice, 5 seconds each, once after each of the first two
\* answers and not after COMPLETED, and the call returned the COMPLETED body.
C11_PollLoopTwoSleeps ==
    \A c \in ClientRuns :
        ScriptedQueueProgressCompleted(wire[c]) =>
            /\ Ops(wire[c]) = <<"POST", "GET", "SLEEP", "GET", "SLEEP", "GET">>
            /\ Len(Gets(wire[c])) = 3
            /\ Len(Sleeps(wire[c])) = 2
            /\ \A i \in 1..2 : Sleeps(wire[c])[i].secs = 5
            /\ CallOver(c)
            /\ client[c].result = Json(Gets(wire[c])[3].body)

\* C11 witness: the scripted sequence was played and its payload returned.
C11_Witness ==
    \E c \in ClientRuns :
        /\ ScriptedQueueProgressCompleted(wire[c])
        /\ client[c].pc = "returned"
        /\ client[c].result.kind = "json"
        /\ client[c].result.body.hasMessage

\* C12: a status answer 200 TIMED_OUT is the last thing on the wire (no status
\* request and no sleep follows it), the call is over, and it returned the
\* no-result marker (None) instead of raising.
C12_TimedOutStopsQuietly ==
    \A c \in ClientRuns : \A i \in 1..Len(wire[c]) :
        (IsGet(wire[c][i]) /\ Ok(wire[c][i], STATUS_TIMED_OUT)) =>
            /\ i = Len(wire[c])
            /\ CallOver(c)
            /\ client[c].result.kind # "raise"
            /\ client[c].result = None

\* C12 witness: TIMED_OUT arrived after the loop had slept once.
C12_Witness ==
    \E c \in ClientRuns :
        /\ Len(wire[c]) = 4
        /\ IsSleep(wire[c][3])
        /\ Ok(wire[c][4], STATUS_TIMED_OUT)
        /\ client[c].pc = "returned"

\* C13 (as claimed): every status answer that is not the last one was 200
\* IN_QUEUE or IN_PROGRESS; a 200 answer with any other status ends the loop;
\* on COMPLETED the body is returned, and on every other final status the
\* value returned to the caller carries that answer's record.
C13_FailureMarkerCarriesRecord ==
    \A c \in ClientRuns : \A i \in 1..Len(wire[c]) :
        LET e == wire[c][i]
        IN  (IsGet(e) /\ e.http = "ok"
             /\ e.body.status \notin {STATUS_IN_QUEUE, STATUS_IN_PROGRESS}) =>
                /\ i = Len(wire[c])
                /\ CallOver(c)
                /\ client[c].result.kind # "raise"
                /\ client[c].result.body = e.body
                /\ (e.body.status = STATUS_COMPLETED => client[c].result = Json(e.body))

\* C14: a status request that raised is the last thing on the wire (no
\* retry, no sleep) and the call ended by raising; the generation function
\* never gets artifacts from it.
C14_PollErrorPropagates ==
    \A c \in ClientRuns : \A i \in 1..Len(wire[c]) :
        (IsGet(wire[c][i]) /\ wire[c][i].http = "error") =>
            /\ i = Len(wire[c])
            /\ client[c].result = Raised
            /\ client[c].pc \in {"returned", "failed"}

\* C14 witness: the second status request raised, and the run has failed.
C14_Witness ==
    \E c \in ClientRuns :
        /\ Len(Gets(wire[c])) = 2
        /\ Gets(wire[c])[2].http = "error"
        /\ client[c].pc = "failed"

\* C15 (as claimed): after an answer with a status code other than 200, to
\* the POST or to a status request, the call has raised or has returned
\* something to its caller (the failure carrying the response body).
C15_Non200ReachesCaller ==
    \A c \in ClientRuns : \A i \in 1..Len(wire[c]) :
        wire[c][i].http = "non200" =>
            /\ CallOver(c)
            /\ client[c].result # None

\* C16: a client that submitted with run_sync = True and got 200: a body with
\* 'output' is returned as it is and no status request is made; a handle (no
\* 'output', an id) makes every status request carry that id, and once the
\* call is over there was at least one and the result is what the loop made
\* of the last answer (raise, the COMPLETED body, or None).
C16_SyncSubmit ==
    \A c \in ClientRuns :
        (client[c].run_sync /\ Len(wire[c]) > 0 /\ wire[c][1].http = "ok") =>
            LET post == wire[c][1]
                g == Gets(wire[c])
                last == g[Len(g)]
            IN  IF post.body.hasOutput
                THEN /\ Len(g) = 0
                     /\ client[c].pc = "returned"
                     /\ client[c].result = Json(post.body)
                ELSE post.id # NoId =>
                     /\ \A i \in 1..Len(g) : g[i].id = post.id
                     /\ CallOver(c) =>
                           /\ Len(g) >= 1
                           /\ client[c].result =
                                 IF last.http = "error" THEN Raised
                                 ELSE IF Ok(last, STATUS_COMPLETED) THEN Json(last.body)
                                 ELSE None

\* C16 witness: a synchronous submission got a handle, polled twice with its
\* id and returned the COMPLETED body.
C16_Witness ==
    \E c \in ClientRuns :
        /\ client[c].run_sync
        /\ Len(wire[c]) > 0 /\ ~wire[c][1].body.hasOutput
        /\ Len(Gets(wire[c])) = 2
        /\ Gets(wire[c])[2].id = wire[c][1].id
        /\ client[c].pc = "returned"
        /\ client[c].result.kind = "json"

\* C17 (as claimed): a client that submitted with run_sync = False, got 200
\* and returned a result made at least one status request before.
C17_AsyncAlwaysPolls ==
    \A c \in ClientRuns :
        (/\ ~client[c].run_sync
         /\ Len(wire[c]) > 0 /\ wire[c][1].http = "ok"
         /\ CallOver(c) /\ client[c].result.kind # "raise") =>
            Len(Gets(wire[c])) >= 1

\* C17 (amended): a client that submitted with run_sync = False and got 200
\* with no 'output' field and a job id makes at least one status request, all
\* for that id, before the call is over; a 200 body that has 'output' is
\* returned with no status request.
C17_AsyncPollsHandles ==
    \A c \in ClientRuns :
        (/\ ~client[c].run_sync
         /\ Len(wire[c]) > 0 /\ wire[c][1].http = "ok") =>
            LET post == wire[c][1]
                g == Gets(wire[c])
            IN  IF post.body.hasOutput
                THEN Len(g) = 0 /\ client[c].result = Json(post.body)
                ELSE post.id # NoId =>
                     /\ \A i \in 1..Len(g) : g[i].id = post.id
                     /\ CallOver(c) => Len(g) >= 1

\* C17 witness: the generation function's submission got a handle and the
\* call ended after one status request for its id.
C17_Witness ==
    \E c \in ClientRuns :
        /\ client[c].mode = "text_to_image"
        /\ Len(wire[c]) > 0 /\ wire[c][1].http = "ok"
        /\ ~wire[c][1].body.hasOutput
        /\ Len(Gets(wire[c])) = 1
        /\ Gets(wire[c])[1].id = wire[c][1].id
        /\ CallOver(c)

\* The request was built and handed to post_request.
Submitted(c) ==
    /\ client[c].pc \notin {"idle", "load", "seed", "positive", "negative",
                            "batch", "image", "submit"}
    /\ client[c].error \notin {"Configuration", "NodeNotFound"}

\* C18: no run ever has more than one POST on the wire, and a run whose
\* request was submitted has exactly one, however it went on: remote failure,
\* transport error, time-out, or a failure of the worker after the artifacts
\* came back.
C18_OnePostNoResubmit ==
    \A c \in ClientRuns :
        /\ PostCount(wire[c]) <= 1
        /\ Submitted(c) => PostCount(wire[c]) = 1

\* C18 witness: a run that failed in the worker after the remote job had
\* completed, with its single POST.
C18_Witness ==
    \E c \in ClientRuns :
        /\ client[c].pc = "failed"
        /\ client[c].error = "Persistence"
        /\ PostCount(wire[c]) = 1

\* C19: a mutator that was called on a template without its node raised the
\* node-not-found error; the run is failing or failed and nothing was sent.
C19_MissingNodeFailsUnsubmitted ==
    \A c \in ClientRuns : \A step \in client[c].called :
        step \notin DOMAIN client[c].workflow =>
            /\ client[c].error = "NodeNotFound"
            /\ client[c].result = Raised
            /\ client[c].pc \in {"returned", "failed"}
            /\ wire[c] = <<>>

\* C19 witness: an image-to-image run failed at the batch-size mutator after
\* seed and positive prompt had been set.
C19_Witness ==
    \E c \in ClientRuns :
        /\ client[c].mode = "image_to_image"
        /\ client[c].called = {"seed", "positive", "batch"}
        /\ "batch" \notin DOMAIN client[c].workflow
        /\ client[c].pc = "failed"

\* ------------------------------------------------------- C20: the API layer
\* C20: a request whose user has fewer credits than num_outputs is answered
\* 400 "Insufficient credits" and leaves the queue as it was; any other
\* request appends exactly one task, for that user and kind, to the queue and
\* is answered with that task's id.
C20_EnqueueOnlyAfterPrecheck ==
    [][ LET a == apiResponse'
        IN  IF balance[a.user_id] >= a.num_outputs
            THEN /\ a.status_code = 200
                 /\ Len(queue') = Len(queue) + 1
                 /\ SubSeq(queue', 1, Len(queue)) = queue
                 /\ queue'[Len(queue')] =
                        [id |-> a.task_id, kind |-> a.kind, user_id |-> a.user_id]
                 /\ \A i \in 1..Len(queue) : queue[i].id # a.task_id
            ELSE /\ a.status_code = 400
                 /\ a.detail = "Insufficient credits"
                 /\ a.task_id = NoId
                 /\ queue' = queue ]_vars

\* C20 witness: a request was refused after another had been enqueued.
C20_Witness ==
    /\ apiResponse.status_code = 400
    /\ Len(queue) = 1
    /\ balance[apiResponse.user_id] = apiResponse.num_outputs - 1

\* ------------------------------------------------------ C21: task status
\* C21: whenever the status route answers, a task that raised is reported
\* 'failed' with the string of its exception, a task that returned is reported
\* 'completed' with its result, any other task 'processing'; and an answer
\* that follows a 'completed' or 'failed' answer for the same task has the
\* same status.
C21_StatusFollowsOutcome ==
    [][ (apiResponse' # apiResponse /\ apiResponse'.kind = "get_task_status") =>
          LET a == apiResponse'
              r == a.task_id
          IN  /\ pc[r] = "failed" =>
                    a.status = "failed" /\ a.error = raisedAt[r] /\ a.error # ""
              /\ pc[r] = "done" =>
                    a.status = "completed" /\ a.result = TaskResult(r)
              /\ pc[r] \notin {"done", "failed"} => a.status = "processing"
              /\ (/\ apiResponse.kind = "get_task_status"
                  /\ apiResponse.task_id = r
                  /\ apiResponse.status \in {"completed", "failed"}) =>
                    a.status = apiResponse.status ]_vars

\* C21 witness: a task that raised after the remote job had completed is
\* reported failed with its error.
C21_Witness ==
    /\ apiResponse.kind = "get_task_status"
    /\ apiResponse.status = "failed"
    /\ apiResponse.error \notin {"", "remote"}
    /\ pc[apiResponse.task_id] = "failed"

\* ------------------------------------------------ C22..C24: the ledger rows
TxnsOfUser(u) == {t \in txns : t.user_id = u}
DebitsOfUser(u) == {r \in Runs : request_data[r].user_id = u /\ deducted[r] = "True"}

RECURSIVE SumAmounts(_)
SumAmounts(S) ==
    IF S = {} THEN 0
    ELSE LET t == CHOOSE x \in S : TRUE IN t.amount + SumAmounts(S \ {t})

\* C22 (as claimed): when every task has returned, each user has as many
\* CreditTransaction rows as debits of that user's balance succeeded
\* (deduct_user_credits returned True).
C22_OneRowPerDebit ==
    (\A r \in Runs : pc[r] = "done") =>
        \A u \in Users : Cardinality(TxnsOfUser(u)) = Cardinality(DebitsOfUser(u))

\* C23 (as claimed): in every committed state, for a task hit by no fault and
\* whose debit was not refused, the GenerationJob row is there if and only if
\* the CreditTransaction row is there and the balance was lowered by the cost.
C23_ChargeVisibleAtOnce ==
    \A r \in Runs :
        (raisedAt[r] = "" /\ deducted[r] # "False") =>
            /\ (JobsOf(r) # {}) <=> (TxnsOf(r) # {})
            /\ (JobsOf(r) # {}) <=> (debited[r] = request_data[r].credit_cost
                                      /\ pc[r] # "queued")

\* C24 (as claimed): when every task has returned and every debit succeeded,
\* each user's balance is the initial balance plus the sum of the amounts of
\* that user's CreditTransaction rows.
C24_BalanceMatchesLedger ==
    (\A r \in Runs : pc[r] = "done" /\ deducted[r] = "True") =>
        \A u \in Users : balance[u] = InitBalance + SumAmounts(TxnsOfUser(u))

\* ------------------------------------------------- C25: loop termination
Polling(c) == client[c].pc = "poll"

\* C25: once the job at the endpoint leaves IN_QUEUE / IN_PROGRESS, a polling
\* client's call ends; a turn of the loop whose answer was not a 200 with
\* IN_QUEUE or IN_PROGRESS ends the loop at once, a turn that slept leaves it
\* polling, and a polling client can always take another turn, whatever the
\* number of turns before.
C25_PollLoopTermination ==
    /\ \A c \in ClientRuns : Polling(c) ~> CallOver(c)
    /\ [][ \A c \in ClientRuns :
             (Polling(c) /\ wire'[c] # wire[c]) =>
                 IF IsSleep(wire'[c][Len(wire'[c])])
                 THEN client'[c].pc = "poll"
                 ELSE client'[c].pc = "returned" ]_vars
    /\ [](\A c \in ClientRuns : Polling(c) => ENABLED PollAnswered(c))

\* C25 witness: the loop is still polling after MaxPolls status requests that
\* were all answered IN_QUEUE or IN_PROGRESS.
C25_Witness ==
    \E c \in ClientRuns :
        /\ Polling(c)
        /\ GetCount(wire[c]) = MaxPolls
        /\ IsSleep(wire[c][Len(wire[c])])
        /\ remote[c] = STATUS_IN_PROGRESS

\* ------------------------------------------------- C26: uploaded blobs
\* C26 (as claimed): a task that raised after it had put objects into the
\* bucket has no Media row committed, so that nothing references the objects
\* it left there.
C26_FailedRunLeavesOnlyOrphans ==
    \A r \in Runs :
        (pc[r] = "failed" /\ blobs[r] > 0) => MediaOf(r) = {}

\* ------------------------------------------------- C27: no idempotency
\* The balance of r's user when r was delivered (deliveries run one after
\* the other).
BalanceBefore(r) == balance[request_data[r].user_id] + debited[r]

\* C27: a second execution of a task that has returned, once it has returned
\* too, went through a remote submission of its own and committed a
\* GenerationJob and Media rows of its own, one per artifact, with ids that
\* no earlier execution has; and if the balance it found covered the cost,
\* the user was debited the cost once more and a further CreditTransaction
\* row was written.
C27_SecondExecutionChargesAgain ==
    \A r \in Runs \ {FirstRun} :
        pc[r] = "done" =>
            /\ response[r].kind = "json"
            /\ Cardinality(JobsOf(r)) = 1
            /\ Cardinality(GeneratedOf(r)) = response[r].body.n
            /\ \A q \in Runs \ {r} :
                  /\ \A j \in JobsOf(r), k \in JobsOf(q) : j.id # k.id
                  /\ \A m \in MediaOf(r), k \in MediaOf(q) : m.id # k.id
            /\ BalanceBefore(r) >= request_data[r].credit_cost =>
                  /\ debited[r] = request_data[r].credit_cost
                  /\ Cardinality(TxnsOf(r)) = 1

\* C27 witness: the same request was executed twice and debited twice.
C27_Witness ==
    \E r \in Runs \ {FirstRun} :
        /\ pc[r] = "done" /\ pc[FirstRun] = "done"
        /\ request_data[r] = request_data[FirstRun]
        /\ debited[r] = SmallCost /\ debited[FirstRun] = SmallCost
        /\ balance[request_data[r].user_id] = InitBalance - 2 * SmallCost
        /\ GeneratedOf(r) # {}

\* ------------------------------------------------- C28: client isolation
SetsNegative(c) == client[c].mode = "text_to_image" /\ client[c].has_negative

\* C28: the payload a run has posted holds the seed that run drew, that
\* run's prompts (the negative one only where the run sets it), the batch
\* size and, for image-to-image, that run's input image and no other; the
\* nodes the run did not set still have the template's values.
C28_PayloadIsTheRunsOwn ==
    \A c \in ConcurrentRuns :
        PostCount(wire[c]) >= 1 =>
            LET p == client[c].payload
            IN  /\ DOMAIN p.workflow = Nodes
                /\ p.workflow["seed"] = client[c].seed
                /\ p.workflow["positive"] = PromptOf(c)
                /\ p.workflow["negative"] = IF SetsNegative(c) THEN PromptOf(c) ELSE 0
                /\ p.workflow["batch"] = NumOutputs
                /\ p.workflow["image"] =
                       IF client[c].mode = "image_to_image" THEN ImageOf(c) ELSE 0
                /\ p.images = IF client[c].mode = "image_to_image" THEN 1 ELSE 0

\* C28 witness: two runs with different seeds have both posted, the one that
\* drew its seed first posting last.
C28_Witness ==
    \E a, b \in ConcurrentRuns :
        /\ a # b
        /\ client[a].seed # client[b].seed
        /\ client[a].mode = "image_to_image" /\ client[b].mode = "text_to_image"
        /\ PostCount(wire[a]) = 1 /\ PostCount(wire[b]) = 1
        /\ client[a].payload.workflow["seed"] = client[a].seed
        /\ client[b].payload.workflow["seed"] = client[b].seed

\* ------------------------------------------------- C29: failed mutators
\* C29 (as claimed): a step in which a mutator raises node-not-found leaves
\* the client's workflow and the images attached to its payload as they were.
C29_FailedMutatorChangesNothing ==
    [][ \A c \in ClientRuns :
          (client[c].error = "" /\ client'[c].error = "NodeNotFound") =>
              /\ client'[c].workflow = client[c].workflow
              /\ client'[c].images = client[c].images ]_vars

\* ------------------------------------------------- C30: media ownership
\* C30: an update or delete request for a media id that has no row is
\* answered 404 and one from a caller who neither owns the row nor is a
\* superuser is answered 403; in both cases the media table and the task
\* queue stay as they were.
C30_OwnershipEnforced ==
    [][ apiResponse'.kind \in {"update_media", "delete_media"} =>
          LET a == apiResponse'
              found == GetMedia(media, a.media_id)
          IN  /\ found = {} =>
                    /\ a.status_code = 404
                    /\ media' = media /\ queue' = queue
              /\ \A m \in found :
                    (m.user_id # a.user_id /\ ~a.is_superuser) =>
                        /\ a.status_code = 403
                        /\ media' = media /\ queue' = queue ]_vars

\* C30 witness: a delete by a caller who does not own the row was refused
\* after the owner's own delete had been accepted.
C30_Witness ==
    /\ apiResponse.kind = "delete_media"
    /\ apiResponse.status_code = 403
    /\ ~apiResponse.is_superuser
    /\ \E m \in media : m.id = apiResponse.media_id /\ m.user_id # apiResponse.user_id
    /\ Len(queue) = 1

====
